---- MODULE Spec2Model ----
(***************************************************************************)
(* RT-LAMP primer designer: the candidate generators, the geometric        *)
(* validators and the combinatorial search of PrimerDesigner               *)
(* (rt_lamp_app/design/primer_design.py, rt_lamp_app/design/utils.py).     *)
(*                                                                         *)
(* ThermoCalculator's values are inputs here: a window's thermodynamic     *)
(* verdict is an oracle (admitted with a score and a Tm, rejected by the   *)
(* filter, or an error raised inside the trial).  A target is its length   *)
(* plus the position of one base outside reverse_complement's table (an    *)
(* RNA 'U', which Sequence accepts), if it has one.                        *)
(***************************************************************************)
EXTENDS Integers, Sequences, FiniteSets, TLC

VARIABLES
    seq_len,               \* len(target_sequence.sequence)
    u_pos,                 \* index of the target's 'U', NoU when it has none
    include_loop_primers,  \* argument of design_primer_set
    max_candidates,        \* argument of design_primer_set
    pc,                    \* position inside design_primer_set
    f3_candidates, b3_candidates, fip_candidates, bip_candidates,
    lf_candidates, lb_candidates,
    idx,                   \* <<f3, b3, fip, bip>>: the combination the loops are at
    combinations_tested,
    primer_sets,
    examined_valid,        \* history: an examined combination met every geometric rule
    result,                \* what design_primer_set returned or raised
    raised_by,             \* the function the propagated exception came from
    g_role, g_windows, g_pos, g_cands, g_state, g_skipped,
                           \* one generator run, window by window (GenSpec)
    class_constraints,     \* PrimerDesigner.DEFAULT_CONSTRAINTS, the class attribute
    self_constraints,      \* self.constraints of the designer last constructed
    call,                  \* the function called directly, with its arguments
    ret,                   \* what that call returned or raised
    exclusion_sequences    \* SpecificityChecker.exclusion_sequences

vars == <<seq_len, u_pos, include_loop_primers, max_candidates, pc,
          f3_candidates, b3_candidates, fip_candidates, bip_candidates,
          lf_candidates, lb_candidates, idx, combinations_tested, primer_sets,
          examined_valid, result, raised_by,
          g_role, g_windows, g_pos, g_cands, g_state, g_skipped,
          class_constraints, self_constraints, call, ret, exclusion_sequences>>

pipeline_vars == <<seq_len, u_pos, include_loop_primers, max_candidates, pc,
          f3_candidates, b3_candidates, fip_candidates, bip_candidates,
          lf_candidates, lb_candidates, idx, combinations_tested, primer_sets,
          examined_valid, result, raised_by>>

generator_vars == <<g_role, g_windows, g_pos, g_cands, g_state, g_skipped>>

call_vars == <<class_constraints, self_constraints, call, ret, exclusion_sequences>>

-----------------------------------------------------------------------------
(* Program constants.                                                      *)

DEFAULT_CONSTRAINTS ==
    [F3_length_min |-> 15, F3_length_max |-> 25,
     B3_length_min |-> 15, B3_length_max |-> 25,
     FIP_length_min |-> 35, FIP_length_max |-> 50,
     BIP_length_min |-> 35, BIP_length_max |-> 50,
     F1c_length_min |-> 15, F1c_length_max |-> 25,
     B1c_length_min |-> 15, B1c_length_max |-> 25,
     F2_length_min |-> 18, F2_length_max |-> 25,
     B2_length_min |-> 18, B2_length_max |-> 25,
     F2_B2_amplicon_min |-> 120, F2_B2_amplicon_max |-> 200,
     F3_F2_spacing_min |-> 0, F3_F2_spacing_max |-> 20,
     B3_B2_spacing_min |-> 0, B3_B2_spacing_max |-> 20,
     LF_length_min |-> 15, LF_length_max |-> 25,
     LB_length_min |-> 15, LB_length_max |-> 25]

\* PrimerDesigner() without arguments: self.constraints = {**DEFAULT_CONSTRAINTS}
constraints == DEFAULT_CONSTRAINTS

min_candidates == 5        \* design_primer_set: minimum per mandatory role
OuterSearchSpan == 50      \* F3: first 50 bp, B3: last 50 bp
InnerMargin == 50          \* FIP/BIP: 50 bp kept free at either end
InnerSpacing == 20         \* FIP/BIP: spacing between the two sub-regions
TopCandidates == 50        \* candidates[:50]
TopLoopCandidates == 20    \* loop candidates[:20]
CombinationLimit == 20     \* f3_candidates[:20] ... in the search
OptimalAmplicon == 160     \* _score_primer_set: optimal_amplicon
NumGeometryParams == 8     \* positional parameters of validate_primer_geometry

-----------------------------------------------------------------------------
(* Bounds of the model.                                                    *)

MaxAdmitted == 5           \* windows per role the oracle admits at most
MaxResults == 1            \* max_candidates ranges over 0..MaxResults
MaxSlack == 1              \* sampled lengths lie up to MaxSlack outside a range
MaxCoord == 3              \* sampled primer positions: 0..MaxCoord, 120 and 121
MaxStrLen == 3             \* longest string handed to reverse_complement
MaxExclusions == 7         \* add_exclusion_sequence is called on lists shorter than this

\* u_pos of a target without 'U'.
NoU == 0 - 1

\* Target lengths: below, at and above the combined minimum footprint, and
\* one long enough for every role.
SeqLens == {20, 100, 125, 400}

\* Where the target's 'U' may be: nowhere, its last base (inside the B3
\* windows), the first base of the sampled F1c windows, inside the LB windows.
UChoices(n) == {NoU, n - 1, n \div 3, (5 * n) \div 8}

-----------------------------------------------------------------------------
(* Python helpers.                                                         *)

Min(a, b) == IF a <= b THEN a ELSE b
Max(a, b) == IF a >= b THEN a ELSE b
Abs(a) == IF a >= 0 THEN a ELSE -a

\* s[:n] for n >= 0
Take(s, n) == SubSeq(s, 1, Min(n, Len(s)))

\* range(lo, hi) as a sequence.
Range(lo, hi) == [i \in 1..Max(0, hi - lo) |-> lo + i - 1]

RECURSIVE Flatten(_)
Flatten(ss) == IF ss = <<>> THEN <<>> ELSE Head(ss) \o Flatten(Tail(ss))

RECURSIVE SeqSum(_)
SeqSum(s) == IF s = <<>> THEN 0 ELSE Head(s) + SeqSum(Tail(s))

\* The values lo + offs[i] of range(lo, hi), in order: a sample of the loop
\* "for x in range(lo, hi)".
RECURSIVE SampleRange(_, _, _)
SampleRange(lo, hi, offs) ==
    IF offs = <<>> THEN <<>>
    ELSE (IF lo + Head(offs) < hi /\ Head(offs) >= 0 THEN <<lo + Head(offs)>> ELSE <<>>)
         \o SampleRange(lo, hi, Tail(offs))

-----------------------------------------------------------------------------
(* Windows.  Each generator enumerates its windows with nested range()     *)
(* loops; the model walks a sample of every loop (the offsets below, taken *)
(* from the loop's first value) in the code's order and under the code's   *)
(* loop bounds.  Windows outside the sample are windows the oracle rejects.*)

OuterLenOffsets == <<0, 5>>
OuterStartOffsets == <<0, 10, 30>>
F1cLenOffsets == <<0, 2>>
F2LenOffsets == <<0>>
F1cStartOffsets == <<0>>
F2StartOffsets == <<0, 10, 20>>
B1cLenOffsets == <<0, 2>>
B2LenOffsets == <<0>>
B1cStartOffsets == <<100>>
B2StartOffsets == <<0, 5, 50>>
LoopLenOffsets == <<0>>
LoopStartOffsets == <<0, 40>>

Window(role, start, end, strand, f1c, f2, b1c, b2) ==
    [type |-> role, start_pos |-> start, end_pos |-> end, strand |-> strand,
     f1c_len |-> f1c, f2_len |-> f2, b1c_len |-> b1c, b2_len |-> b2]

\* _generate_f3_candidates: for length in range(min_len, max_len + 1):
\*   for start in range(0, min(50, len(sequence) - length + 1))
F3Windows(n) ==
    LET lens == SampleRange(constraints.F3_length_min,
                            constraints.F3_length_max + 1, OuterLenOffsets)
        starts(l) == SampleRange(0, Min(OuterSearchSpan, n - l + 1), OuterStartOffsets)
    IN Flatten([i \in 1..Len(lens) |->
         [j \in 1..Len(starts(lens[i])) |->
            Window("F3", starts(lens[i])[j], starts(lens[i])[j] + lens[i] - 1,
                   "+", 0, 0, 0, 0)]])

\* _generate_b3_candidates: for length in range(min_len, max_len + 1):
\*   for start in range(max(0, seq_len - 50), seq_len - length + 1)
B3Windows(n) ==
    LET lens == SampleRange(constraints.B3_length_min,
                            constraints.B3_length_max + 1, OuterLenOffsets)
        starts(l) == SampleRange(Max(0, n - OuterSearchSpan), n - l + 1,
                                 OuterStartOffsets)
    IN Flatten([i \in 1..Len(lens) |->
         [j \in 1..Len(starts(lens[i])) |->
            Window("B3", starts(lens[i])[j], starts(lens[i])[j] + lens[i] - 1,
                   "-", 0, 0, 0, 0)]])

\* _generate_fip_candidates: f1c_len, f2_len,
\*   f1c_start in range(seq_len // 3, seq_len - f1c_len - 50),
\*   f2_start in range(50, f1c_start - 20);
\* the primer spans f2_start .. f1c_end.
FIPWindows(n) ==
    LET f1c_lens == SampleRange(constraints.F1c_length_min,
                                constraints.F1c_length_max + 1, F1cLenOffsets)
        f2_lens == SampleRange(constraints.F2_length_min,
                               constraints.F2_length_max + 1, F2LenOffsets)
        f1c_starts(l) == SampleRange(n \div 3, n - l - InnerMargin, F1cStartOffsets)
        f2_starts(s) == SampleRange(InnerMargin, s - InnerSpacing, F2StartOffsets)
    IN Flatten([a \in 1..Len(f1c_lens) |->
        Flatten([b \in 1..Len(f2_lens) |->
         Flatten([c \in 1..Len(f1c_starts(f1c_lens[a])) |->
           LET f1c_start == f1c_starts(f1c_lens[a])[c]
               f1c_end == f1c_start + f1c_lens[a] - 1
           IN [d \in 1..Len(f2_starts(f1c_start)) |->
                Window("FIP", f2_starts(f1c_start)[d], f1c_end, "+",
                       f1c_lens[a], f2_lens[b], 0, 0)]])])])

\* _generate_bip_candidates: b1c_len, b2_len,
\*   b1c_start in range(50, seq_len // 2),
\*   b2_start in range(b1c_end + 20, seq_len - b2_len - 50);
\* the primer spans b1c_start .. b2_end.
BIPWindows(n) ==
    LET b1c_lens == SampleRange(constraints.B1c_length_min,
                                constraints.B1c_length_max + 1, B1cLenOffsets)
        b2_lens == SampleRange(constraints.B2_length_min,
                               constraints.B2_length_max + 1, B2LenOffsets)
        b1c_starts == SampleRange(InnerMargin, n \div 2, B1cStartOffsets)
        b2_starts(e, l) == SampleRange(e + InnerSpacing, n - l - InnerMargin,
                                       B2StartOffsets)
    IN Flatten([a \in 1..Len(b1c_lens) |->
        Flatten([b \in 1..Len(b2_lens) |->
         Flatten([c \in 1..Len(b1c_starts) |->
           LET b1c_start == b1c_starts[c]
               b1c_end == b1c_start + b1c_lens[a] - 1
               b2s == b2_starts(b1c_end, b2_lens[b])
           IN [d \in 1..Len(b2s) |->
                Window("BIP", b1c_start, b2s[d] + b2_lens[b] - 1, "-",
                       0, 0, b1c_lens[a], b2_lens[b])]])])])

\* _generate_loop_candidates: LF searches seq_len // 4 .. seq_len // 2 on "+",
\* LB searches seq_len // 2 .. 3 * seq_len // 4 on "-";
\*   for start in range(search_start, min(search_end, seq_len - length + 1))
LoopWindows(role, n) ==
    LET min_len == IF role = "LF" THEN constraints.LF_length_min
                                  ELSE constraints.LB_length_min
        max_len == IF role = "LF" THEN constraints.LF_length_max
                                  ELSE constraints.LB_length_max
        search_start == IF role = "LF" THEN n \div 4 ELSE n \div 2
        search_end == IF role = "LF" THEN n \div 2 ELSE (3 * n) \div 4
        strand == IF role = "LF" THEN "+" ELSE "-"
        lens == SampleRange(min_len, max_len + 1, LoopLenOffsets)
        starts(l) == SampleRange(search_start, Min(search_end, n - l + 1),
                                 LoopStartOffsets)
    IN Flatten([i \in 1..Len(lens) |->
         [j \in 1..Len(starts(lens[i])) |->
            Window(role, starts(lens[i])[j], starts(lens[i])[j] + lens[i] - 1,
                   strand, 0, 0, 0, 0)]])

Roles == {"F3", "B3", "FIP", "BIP", "LF", "LB"}

WindowsOf(role, n) ==
    CASE role = "F3" -> F3Windows(n)
      [] role = "B3" -> B3Windows(n)
      [] role = "FIP" -> FIPWindows(n)
      [] role = "BIP" -> BIPWindows(n)
      [] OTHER -> LoopWindows(role, n)

-----------------------------------------------------------------------------
(* One candidate trial.                                                    *)

\* reverse_complement(sequence[lo:hi + 1]): complement_map has no entry for
\* 'U', the KeyError is re-raised as ValueError.
reverse_complement_raises(lo, hi, u) == u # NoU /\ lo <= u /\ u <= hi

\* The region a generator reverse-complements: the whole window for B3 and
\* LB, the F1c part for FIP (_construct_fip_primer), the B1c part for BIP
\* (_construct_bip_primer); F3 and LF take the window as it is.
RcRegion(w) ==
    CASE w.type \in {"B3", "LB"} -> <<w.start_pos, w.end_pos>>
      [] w.type = "FIP" -> <<w.end_pos - w.f1c_len + 1, w.end_pos>>
      [] w.type = "BIP" -> <<w.start_pos, w.start_pos + w.b1c_len - 1>>
      [] OTHER -> <<0, -1>>

RcRaises(w, u) == reverse_complement_raises(RcRegion(w)[1], RcRegion(w)[2], u)

\* What the thermodynamic calculator and the admissibility filter make of a
\* window: "ok" (a primer with this score and Tm that _is_valid_primer
\* accepts), "reject" (_is_valid_primer returns False), "thermo_error"
\* (_create_primer raises), "composition_error" (validate_sequence_composition
\* raises ValueError inside _is_valid_primer).
VerdictKinds == {"ok", "reject", "thermo_error", "composition_error"}

Verdict(kind, score, tm, gc_content, hairpin_dg) ==
    [kind |-> kind, score |-> score, tm |-> tm, gc_content |-> gc_content,
     hairpin_dg |-> hairpin_dg]

\* OPTIMAL_RANGES: the keys _is_valid_primer reads (whole numbers in the
\* source; Tm in degrees C, GC in percent, hairpin dG in kcal/mol).
OPTIMAL_RANGES ==
    [tm_min |-> 58, tm_max |-> 65, gc_min |-> 40, gc_max |-> 60,
     hairpin_dg_max |-> 0 - 3]

\* _create_primer: the Primer built for a window.
create_primer(w, v) ==
    [type |-> w.type, start_pos |-> w.start_pos, end_pos |-> w.end_pos,
     strand |-> w.strand, tm |-> v.tm, score |-> v.score,
     f1c_len |-> w.f1c_len, f2_len |-> w.f2_len,
     b1c_len |-> w.b1c_len, b2_len |-> w.b2_len,
     gc_content |-> v.gc_content, hairpin_dg |-> v.hairpin_dg,
     composition |-> IF v.kind = "reject" THEN "issues" ELSE "valid",
     warnings |-> <<>>]

\* _is_valid_primer without the hairpin test.
is_valid_primer_no_hairpin(primer) ==
    IF primer.composition # "valid" THEN FALSE
    ELSE IF ~(OPTIMAL_RANGES.tm_min <= primer.tm /\ primer.tm <= OPTIMAL_RANGES.tm_max)
    THEN FALSE
    ELSE IF ~(OPTIMAL_RANGES.gc_min <= primer.gc_content
              /\ primer.gc_content <= OPTIMAL_RANGES.gc_max)
    THEN FALSE
    ELSE TRUE

\* _is_valid_primer(primer); primer.composition is what
\* validate_sequence_composition returns for the primer's sequence.
is_valid_primer(primer) ==
    IF primer.composition # "valid" THEN FALSE
    ELSE IF ~(OPTIMAL_RANGES.tm_min <= primer.tm /\ primer.tm <= OPTIMAL_RANGES.tm_max)
    THEN FALSE
    ELSE IF ~(OPTIMAL_RANGES.gc_min <= primer.gc_content
              /\ primer.gc_content <= OPTIMAL_RANGES.gc_max)
    THEN FALSE
    ELSE IF primer.hairpin_dg < OPTIMAL_RANGES.hairpin_dg_max THEN FALSE
    ELSE TRUE

\* The primer after a check that extends the warnings of every primer.
checked_primer_always_warned(primer) ==
    [primer EXCEPT !.warnings = @ \o <<"Strong 3'-end (G/C) may cause non-specific priming">>]

\* The primer after _is_valid_primer(primer): primer.warnings.extend(issues)
\* when validate_sequence_composition reported issues.
checked_primer(primer) ==
    IF primer.composition = "issues"
    THEN [primer EXCEPT
            !.warnings = @ \o <<"Strong 3'-end (G/C) may cause non-specific priming">>]
    ELSE primer

\* The body of a generator's innermost loop for window w: "raise" (the
\* exception leaves the generator), "skip" (caught by the trial's except, or
\* filtered out) or "append".
\* B3 and LB call reverse_complement before the try; FIP and BIP call it
\* inside the try (in _construct_*_primer).
Trial(w, v, u) ==
    IF w.type \in {"B3", "LB"} /\ RcRaises(w, u)
    THEN [kind |-> "raise", error |-> "ValueError"]
    ELSE IF RcRaises(w, u) \/ v.kind \in {"thermo_error", "composition_error"}
    THEN [kind |-> "skip", error |-> "caught"]
    ELSE IF ~is_valid_primer(create_primer(w, v))
    THEN [kind |-> "skip", error |-> "none"]
    ELSE [kind |-> "append", primer |-> checked_primer(create_primer(w, v))]

\* candidates.sort(key=lambda x: x.score, reverse=True): stable, descending.
\* The place of s[i] after the sort: behind every element of a higher score
\* and behind the earlier elements of the same score.
ScoreRank(s, i) ==
    Cardinality({j \in 1..Len(s) :
                   s[j].score > s[i].score \/ (s[j].score = s[i].score /\ j < i)}) + 1

SortByScore(s) ==
    LET rank == [i \in 1..Len(s) |-> ScoreRank(s, i)]
    IN [k \in 1..Len(s) |-> s[CHOOSE i \in 1..Len(s) : rank[i] = k]]

\* The slice without the sort.
TopOf_unsorted(role, cands) ==
    Take(cands, IF role \in {"LF", "LB"} THEN TopLoopCandidates ELSE TopCandidates)

\* return candidates[:50] (loop primers: candidates[:20])
TopOf(role, cands) ==
    Take(SortByScore(cands),
         IF role \in {"LF", "LB"} THEN TopLoopCandidates ELSE TopCandidates)

\* A generator run over windows ws with verdicts vs (one per window).
RunTrials(ws, vs, u, acc) ==
    LET trials == [i \in 1..Len(ws) |-> Trial(ws[i], vs[i], u)]
        Appends(t) == t.kind = "append"
        appended == SelectSeq(trials, Appends)
    IN IF \E i \in 1..Len(ws) : trials[i].kind = "raise"
       THEN [raised |-> TRUE, candidates |-> <<>>]
       ELSE [raised |-> FALSE,
             candidates |-> acc \o [j \in 1..Len(appended) |-> appended[j].primer]]

generate_candidates(role, n, u, vs) ==
    LET r == RunTrials(WindowsOf(role, n), vs, u, <<>>)
    IN [raised |-> r.raised, candidates |-> TopOf(role, r.candidates)]

\* The oracle of the pipeline: the first k sampled windows of a role are
\* admissible, the others are rejected; scores and Tm vary with the window.
ThermoSample(i) == Verdict("ok", 0 - ((2 * i) % 3), 60 + (i % 3), 45 + 5 * (i % 3), 0 - (i % 2))

PrefixVerdicts(ws, k) ==
    [i \in 1..Len(ws) |-> IF i <= k THEN ThermoSample(i)
                          ELSE Verdict("reject", 0, 60, 50, 0)]

\* Some window of the code's full loop contains position u.
FullRangeCovers(role, n, u) ==
    LET min_len == IF role = "B3" THEN constraints.B3_length_min
                                  ELSE constraints.LB_length_min
        max_len == IF role = "B3" THEN constraints.B3_length_max
                                  ELSE constraints.LB_length_max
        lo == IF role = "B3" THEN Max(0, n - OuterSearchSpan) ELSE n \div 2
        hi(l) == IF role = "B3" THEN n - l + 1
                 ELSE Min((3 * n) \div 4, n - l + 1)
    IN \E l \in min_len..max_len : \E s \in lo..(hi(l) - 1) : s <= u /\ u <= s + l - 1

SampleCovers(role, n, u) ==
    \E i \in 1..Len(WindowsOf(role, n)) : RcRaises(WindowsOf(role, n)[i], u)

\* The targets of the model: whenever a window of the full B3 or LB loop holds
\* the 'U', a sampled window does too, so the sampled run raises exactly when
\* the full run does.
Targets ==
    {t \in [seq_len : SeqLens, u_pos : UNION {UChoices(n) : n \in SeqLens}] :
        /\ t.u_pos \in UChoices(t.seq_len)
        /\ \A role \in {"B3", "LB"} :
              (t.u_pos # NoU /\ FullRangeCovers(role, t.seq_len, t.u_pos))
                 => SampleCovers(role, t.seq_len, t.u_pos)}

-----------------------------------------------------------------------------
(* Geometric validation (utils.py).                                        *)

NoError == [raised |-> "none", constraint_type |-> "none", expected |-> "", actual |-> ""]
GeometricConstraintError(constraint_type, expected, actual) ==
    [raised |-> "GeometricConstraintError", constraint_type |-> constraint_type,
     expected |-> expected, actual |-> actual]
TypeError == [raised |-> "TypeError", constraint_type |-> "none", expected |-> "",
              actual |-> ""]

\* str(n) and the {n} of an f-string.
Str(n) == ToString(n)

\* f"{lo}-{hi}"
RangeText(lo, hi) == Str(lo) \o "-" \o Str(hi)

\* dict.get(key, default)
DictGet(d, key, default) == IF key \in DOMAIN d THEN d[key] ELSE default

\* validate_primer_geometry with the F3/FIP test taken as strict.
validate_primer_geometry_strict(f3_start, f3_end, b3_start, b3_end, fip_start, fip_end, bip_start, bip_end) ==
    IF f3_end > fip_start
    THEN GeometricConstraintError("F3_FIP_overlap", "no overlap",
             "F3 ends at " \o Str(f3_end) \o ", FIP starts at " \o Str(fip_start))
    ELSE IF fip_end >= bip_start
    THEN GeometricConstraintError("FIP_BIP_overlap", "no overlap",
             "FIP ends at " \o Str(fip_end) \o ", BIP starts at " \o Str(bip_start))
    ELSE IF bip_end >= b3_start
    THEN GeometricConstraintError("BIP_B3_overlap", "no overlap",
             "BIP ends at " \o Str(bip_end) \o ", B3 starts at " \o Str(b3_start))
    ELSE IF b3_start - f3_end < 120
    THEN GeometricConstraintError("amplicon_size", ">=120", Str(b3_start - f3_end))
    ELSE NoError

\* validate_primer_geometry: the eight-position version.
validate_primer_geometry(f3_start, f3_end, b3_start, b3_end, fip_start, fip_end, bip_start, bip_end) ==
    IF f3_end >= fip_start
    THEN GeometricConstraintError("F3_FIP_overlap", "no overlap",
             "F3 ends at " \o Str(f3_end) \o ", FIP starts at " \o Str(fip_start))
    ELSE IF fip_end >= bip_start
    THEN GeometricConstraintError("FIP_BIP_overlap", "no overlap",
             "FIP ends at " \o Str(fip_end) \o ", BIP starts at " \o Str(bip_start))
    ELSE IF bip_end >= b3_start
    THEN GeometricConstraintError("BIP_B3_overlap", "no overlap",
             "BIP ends at " \o Str(bip_end) \o ", B3 starts at " \o Str(b3_start))
    ELSE IF b3_start - f3_end < 120
    THEN GeometricConstraintError("amplicon_size", ">=120", Str(b3_start - f3_end))
    ELSE NoError

\* The length taken as end - start.
RegionLen_exclusive(r) == r[2] - r[1]

RegionLen(r) == r[2] - r[1] + 1

\* validate_primer_geometry_full(regions, constraints): regions maps region
\* names to <<start, end>>; regions.get(name) is None for a missing name.
validate_primer_geometry_full(regions, cons) ==
    LET has(name) == name \in DOMAIN regions
        f3_length == RegionLen(regions["F3"])
        min_f3 == DictGet(cons, "F3_length_min", 15)
        max_f3 == DictGet(cons, "F3_length_max", 25)
        b3_length == RegionLen(regions["B3"])
        min_b3 == DictGet(cons, "B3_length_min", 15)
        max_b3 == DictGet(cons, "B3_length_max", 25)
        fip_length == RegionLen(regions["F1c"]) + RegionLen(regions["F2"])
        min_fip == DictGet(cons, "FIP_length_min", 35)
        max_fip == DictGet(cons, "FIP_length_max", 50)
        bip_length == RegionLen(regions["B1c"]) + RegionLen(regions["B2"])
        min_bip == DictGet(cons, "BIP_length_min", 35)
        max_bip == DictGet(cons, "BIP_length_max", 50)
        amplicon_size == regions["B2"][1] - regions["F2"][2] - 1
        min_amplicon == DictGet(cons, "F2_B2_amplicon_min", 120)
        max_amplicon == DictGet(cons, "F2_B2_amplicon_max", 200)
    IN IF has("F3") /\ ~(min_f3 <= f3_length /\ f3_length <= max_f3)
       THEN GeometricConstraintError("F3_length", RangeText(min_f3, max_f3),
                                     Str(f3_length))
       ELSE IF has("B3") /\ ~(min_b3 <= b3_length /\ b3_length <= max_b3)
       THEN GeometricConstraintError("B3_length", RangeText(min_b3, max_b3),
                                     Str(b3_length))
       ELSE IF has("F1c") /\ has("F2")
               /\ ~(min_fip <= fip_length /\ fip_length <= max_fip)
       THEN GeometricConstraintError("FIP_length", RangeText(min_fip, max_fip),
                                     Str(fip_length))
       ELSE IF has("B1c") /\ has("B2")
               /\ ~(min_bip <= bip_length /\ bip_length <= max_bip)
       THEN GeometricConstraintError("BIP_length", RangeText(min_bip, max_bip),
                                     Str(bip_length))
       ELSE IF has("F2") /\ has("B2")
               /\ ~(min_amplicon <= amplicon_size /\ amplicon_size <= max_amplicon)
       THEN GeometricConstraintError("F2_B2_amplicon",
                                     RangeText(min_amplicon, max_amplicon),
                                     Str(amplicon_size))
       ELSE NoError

\* A Python call validate_primer_geometry(*args): the name imported into
\* primer_design.py is the eight-position function, so a call with any other
\* number of positional arguments raises TypeError before its body runs.
call_validate_primer_geometry(args) ==
    IF Len(args) # NumGeometryParams THEN TypeError
    ELSE validate_primer_geometry(args[1], args[2], args[3], args[4],
                                  args[5], args[6], args[7], args[8])

-----------------------------------------------------------------------------
(* Primer sets (primer_design.py).                                         *)

NoPrimer ==
    [type |-> "None", start_pos |-> 0, end_pos |-> 0, strand |-> "+", tm |-> 0,
     score |-> 0, f1c_len |-> 0, f2_len |-> 0, b1c_len |-> 0, b2_len |-> 0,
     gc_content |-> 0, hairpin_dg |-> 0, composition |-> "valid", warnings |-> <<>>]

\* LampPrimerSet(f3=f3, b3=b3, fip=fip, bip=bip) with the dataclass defaults.
\* overall_score and the penalties are kept as 60 times their value, so that
\* the mean over 4, 5 or 6 primers and the division by 10 stay integers.
LampPrimerSet(f3, b3, fip, bip) ==
    [f3 |-> f3, b3 |-> b3, fip |-> fip, bip |-> bip, lf |-> NoPrimer, lb |-> NoPrimer,
     overall_score |-> 0, tm_uniformity |-> 0, geometric_validity |-> TRUE,
     f3_f2_distance |-> 0, b3_b2_distance |-> 0, f2_b2_amplicon_size |-> 0,
     warnings |-> <<>>]

\* The regions dict of _validate_primer_set_geometry.
Regions(ps) ==
    LET outer == [name \in {"F3", "B3"} |->
                    IF name = "F3" THEN <<ps.f3.start_pos, ps.f3.end_pos>>
                    ELSE <<ps.b3.start_pos, ps.b3.end_pos>>]
        fwd == IF ps.fip.f2_len > 0 /\ ps.fip.f1c_len > 0
               THEN [name \in {"F2", "F1c"} |->
                       IF name = "F2"
                       THEN <<ps.fip.start_pos, ps.fip.start_pos + ps.fip.f2_len - 1>>
                       ELSE <<ps.fip.end_pos - ps.fip.f1c_len + 1, ps.fip.end_pos>>]
               ELSE <<>>
        bwd == IF ps.bip.b1c_len > 0 /\ ps.bip.b2_len > 0
               THEN [name \in {"B1c", "B2"} |->
                       IF name = "B1c"
                       THEN <<ps.bip.start_pos, ps.bip.start_pos + ps.bip.b1c_len - 1>>
                       ELSE <<ps.bip.end_pos - ps.bip.b2_len + 1, ps.bip.end_pos>>]
               ELSE <<>>
    IN [name \in DOMAIN outer \cup DOMAIN fwd \cup DOMAIN bwd |->
          IF name \in DOMAIN outer THEN outer[name]
          ELSE IF name \in DOMAIN fwd THEN fwd[name] ELSE bwd[name]]

\* _validate_primer_set_geometry(primer_set, target): the error it lets
\* through, or the set with its derived measurements.
validate_primer_set_geometry(ps) ==
    LET regions == Regions(ps)
        v == call_validate_primer_geometry(<<regions, constraints>>)
    IN IF v.raised # "none" THEN [error |-> v, set |-> ps]
       ELSE [error |-> NoError,
             set |-> [ps EXCEPT
                 !.f2_b2_amplicon_size =
                     IF "F2" \in DOMAIN regions /\ "B2" \in DOMAIN regions
                     THEN regions["B2"][1] - regions["F2"][2] - 1 ELSE @,
                 !.geometric_validity = TRUE]]

\* LampPrimerSet.get_all_primers
get_all_primers(ps) ==
    <<ps.f3, ps.b3, ps.fip, ps.bip>>
      \o (IF ps.lf.type # "None" THEN <<ps.lf>> ELSE <<>>)
      \o (IF ps.lb.type # "None" THEN <<ps.lb>> ELSE <<>>)

RECURSIVE SeqMax(_)
SeqMax(s) == IF Len(s) = 1 THEN s[1] ELSE Max(Head(s), SeqMax(Tail(s)))
RECURSIVE SeqMin(_)
SeqMin(s) == IF Len(s) = 1 THEN s[1] ELSE Min(Head(s), SeqMin(Tail(s)))

\* A scoring step that also rescores the F3 primer.
score_primer_set_rescoring(ps) ==
    [ps EXCEPT !.f3.score = @ - 1, !.overall_score = @ - 60]

\* _score_primer_set
score_primer_set(ps) ==
    LET primers == get_all_primers(ps)
        scores == [i \in 1..Len(primers) |-> primers[i].score]
        tms == [i \in 1..Len(primers) |-> primers[i].tm]
        avg60 == (60 \div Len(primers)) * SeqSum(scores)
        tm_uniformity == SeqMax(tms) - SeqMin(tms)
        amplicon_penalty60 ==
            IF ps.f2_b2_amplicon_size > 0
            THEN 0 - 6 * Abs(ps.f2_b2_amplicon_size - OptimalAmplicon) ELSE 0
    IN [ps EXCEPT
          !.tm_uniformity = tm_uniformity,
          !.overall_score = avg60 - 60 * tm_uniformity + amplicon_penalty60,
          !.warnings = @ \o (IF tm_uniformity > 5 THEN <<"Large Tm range">> ELSE <<>>)
                         \o (IF ps.f2_b2_amplicon_size > 200
                             THEN <<"Large amplicon">> ELSE <<>>)]

\* primer_sets.sort(key=lambda x: x.overall_score, reverse=True)
RECURSIVE InsertByOverall(_, _)
InsertByOverall(x, t) ==
    IF t = <<>> THEN <<x>>
    ELSE IF Head(t).overall_score >= x.overall_score
         THEN <<Head(t)>> \o InsertByOverall(x, Tail(t))
    ELSE <<x>> \o t

RECURSIVE SortByOverall(_)
SortByOverall(s) ==
    IF s = <<>> THEN <<>>
    ELSE InsertByOverall(s[Len(s)], SortByOverall(SubSeq(s, 1, Len(s) - 1)))

\* The geometric rules a combination is measured against: those of the
\* regions validator, and the ordering and spacing rules of the
\* eight-position validator.
SatisfiesAllRules(ps) ==
    /\ validate_primer_geometry_full(Regions(ps), constraints) = NoError
    /\ validate_primer_geometry(ps.f3.start_pos, ps.f3.end_pos,
                                ps.b3.start_pos, ps.b3.end_pos,
                                ps.fip.start_pos, ps.fip.end_pos,
                                ps.bip.start_pos, ps.bip.end_pos) = NoError

-----------------------------------------------------------------------------
(* design_primer_set.                                                      *)

NoResult == [kind |-> "none", primer_type |-> "none", found |-> 0, required |-> 0,
             sets |-> <<>>]
Returned(sets) == [kind |-> "returned", primer_type |-> "none", found |-> 0,
                   required |-> 0, sets |-> sets]
InsufficientCandidatesError(primer_type, found, required) ==
    [kind |-> "InsufficientCandidatesError", primer_type |-> primer_type,
     found |-> found, required |-> required, sets |-> <<>>]
ValueError == [kind |-> "ValueError", primer_type |-> "none", found |-> 0,
               required |-> 0, sets |-> <<>>]

GenIdle ==
    /\ g_role = "F3" /\ g_windows = <<>> /\ g_pos = 1 /\ g_cands = <<>>
    /\ g_state = "idle" /\ g_skipped = 0

\* SpecificityChecker.__init__: the default exclusion list, sixteen-base
\* runs of G, A, T and C.
PolyBase(base) == [i \in 1..16 |-> base]
DefaultExclusions == <<PolyBase("G"), PolyBase("A"), PolyBase("T"), PolyBase("C")>>

\* No function is being called directly; the designer is PrimerDesigner()
\* and the checker is SpecificityChecker().
NoCall == [fn |-> "none"]
NoReturn == [kind |-> "none"]

CallIdle ==
    /\ class_constraints = DEFAULT_CONSTRAINTS
    /\ self_constraints = DEFAULT_CONSTRAINTS
    /\ call = NoCall
    /\ ret = NoReturn
    /\ exclusion_sequences = DefaultExclusions

Init ==
    /\ \E t \in Targets : seq_len = t.seq_len /\ u_pos = t.u_pos
    /\ include_loop_primers \in BOOLEAN
    /\ max_candidates \in 0..MaxResults
    /\ pc = "gen_f3"
    /\ f3_candidates = <<>> /\ b3_candidates = <<>>
    /\ fip_candidates = <<>> /\ bip_candidates = <<>>
    /\ lf_candidates = <<>> /\ lb_candidates = <<>>
    /\ idx = <<1, 1, 1, 1>>
    /\ combinations_tested = 0
    /\ primer_sets = <<>>
    /\ examined_valid = FALSE
    /\ result = NoResult
    /\ raised_by = "none"
    /\ GenIdle
    /\ CallIdle

\* A generator call of design_primer_set: the oracle admits the first k
\* sampled windows.
Generated(role, k) ==
    generate_candidates(role, seq_len, u_pos,
                        PrefixVerdicts(WindowsOf(role, seq_len), k))

\* An exception leaves design_primer_set.
Propagate(error, origin) ==
    /\ result' = error
    /\ raised_by' = origin
    /\ pc' = "done"

GenerateF3 ==
    /\ pc = "gen_f3"
    /\ \E k \in 0..MaxAdmitted :
         LET r == Generated("F3", k)
         IN IF r.raised
            THEN /\ Propagate(ValueError, "_generate_f3_candidates")
                 /\ UNCHANGED f3_candidates
            ELSE /\ f3_candidates' = r.candidates
                 /\ pc' = "gen_b3"
                 /\ UNCHANGED <<result, raised_by>>
    /\ UNCHANGED <<seq_len, u_pos, include_loop_primers, max_candidates,
                   b3_candidates, fip_candidates, bip_candidates, lf_candidates,
                   lb_candidates, idx, combinations_tested, primer_sets,
                   examined_valid, generator_vars, call_vars>>

GenerateB3 ==
    /\ pc = "gen_b3"
    /\ \E k \in 0..MaxAdmitted :
         LET r == Generated("B3", k)
         IN IF r.raised
            THEN /\ Propagate(ValueError, "_generate_b3_candidates")
                 /\ UNCHANGED b3_candidates
            ELSE /\ b3_candidates' = r.candidates
                 /\ pc' = "gen_fip"
                 /\ UNCHANGED <<result, raised_by>>
    /\ UNCHANGED <<seq_len, u_pos, include_loop_primers, max_candidates,
                   f3_candidates, fip_candidates, bip_candidates, lf_candidates,
                   lb_candidates, idx, combinations_tested, primer_sets,
                   examined_valid, generator_vars, call_vars>>

GenerateFIP ==
    /\ pc = "gen_fip"
    /\ \E k \in 0..MaxAdmitted :
         LET r == Generated("FIP", k)
         IN IF r.raised
            THEN /\ Propagate(ValueError, "_generate_fip_candidates")
                 /\ UNCHANGED fip_candidates
            ELSE /\ fip_candidates' = r.candidates
                 /\ pc' = "gen_bip"
                 /\ UNCHANGED <<result, raised_by>>
    /\ UNCHANGED <<seq_len, u_pos, include_loop_primers, max_candidates,
                   f3_candidates, b3_candidates, bip_candidates, lf_candidates,
                   lb_candidates, idx, combinations_tested, primer_sets,
                   examined_valid, generator_vars, call_vars>>

GenerateBIP ==
    /\ pc = "gen_bip"
    /\ \E k \in 0..MaxAdmitted :
         LET r == Generated("BIP", k)
         IN IF r.raised
            THEN /\ Propagate(ValueError, "_generate_bip_candidates")
                 /\ UNCHANGED bip_candidates
            ELSE /\ bip_candidates' = r.candidates
                 /\ pc' = "check_min"
                 /\ UNCHANGED <<result, raised_by>>
    /\ UNCHANGED <<seq_len, u_pos, include_loop_primers, max_candidates,
                   f3_candidates, b3_candidates, fip_candidates, lf_candidates,
                   lb_candidates, idx, combinations_tested, primer_sets,
                   examined_valid, generator_vars, call_vars>>

\* for primer_type, candidates in [("F3", ..), ("B3", ..), ("FIP", ..), ("BIP", ..)]:
\*     if len(candidates) < min_candidates: raise InsufficientCandidatesError(...)
\* The error raised, or NoResult when every list is long enough.
RECURSIVE FirstDeficient(_)
FirstDeficient(pairs) ==
    IF pairs = <<>> THEN NoResult
    ELSE IF Len(Head(pairs)[2]) < min_candidates
         THEN InsufficientCandidatesError(Head(pairs)[1], Len(Head(pairs)[2]),
                                          min_candidates)
    ELSE FirstDeficient(Tail(pairs))

\* The check with the first two roles examined in the other order.
check_minimum_candidates_b3_first(f3, b3, fip, bip) ==
    FirstDeficient(<< <<"B3", b3>>, <<"F3", f3>>, <<"FIP", fip>>, <<"BIP", bip>> >>)

check_minimum_candidates(f3, b3, fip, bip) ==
    FirstDeficient(<< <<"F3", f3>>, <<"B3", b3>>, <<"FIP", fip>>, <<"BIP", bip>> >>)

CheckMinimum ==
    /\ pc = "check_min"
    /\ LET e == check_minimum_candidates(f3_candidates, b3_candidates,
                                         fip_candidates, bip_candidates)
       IN IF e.kind # "none"
          THEN Propagate(e, "design_primer_set")
          ELSE /\ pc' = IF include_loop_primers THEN "gen_lf" ELSE "search"
               /\ UNCHANGED <<result, raised_by>>
    /\ UNCHANGED <<seq_len, u_pos, include_loop_primers, max_candidates,
                   f3_candidates, b3_candidates, fip_candidates, bip_candidates,
                   lf_candidates, lb_candidates, idx, combinations_tested,
                   primer_sets, examined_valid, generator_vars, call_vars>>

GenerateLF ==
    /\ pc = "gen_lf"
    /\ \E k \in 0..MaxAdmitted :
         LET r == Generated("LF", k)
         IN IF r.raised
            THEN /\ Propagate(ValueError, "_generate_loop_candidates")
                 /\ UNCHANGED lf_candidates
            ELSE /\ lf_candidates' = r.candidates
                 /\ pc' = "gen_lb"
                 /\ UNCHANGED <<result, raised_by>>
    /\ UNCHANGED <<seq_len, u_pos, include_loop_primers, max_candidates,
                   f3_candidates, b3_candidates, fip_candidates, bip_candidates,
                   lb_candidates, idx, combinations_tested, primer_sets,
                   examined_valid, generator_vars, call_vars>>

GenerateLB ==
    /\ pc = "gen_lb"
    /\ \E k \in 0..MaxAdmitted :
         LET r == Generated("LB", k)
         IN IF r.raised
            THEN /\ Propagate(ValueError, "_generate_loop_candidates")
                 /\ UNCHANGED lb_candidates
            ELSE /\ lb_candidates' = r.candidates
                 /\ pc' = "search"
                 /\ UNCHANGED <<result, raised_by>>
    /\ UNCHANGED <<seq_len, u_pos, include_loop_primers, max_candidates,
                   f3_candidates, b3_candidates, fip_candidates, bip_candidates,
                   lf_candidates, idx, combinations_tested, primer_sets,
                   examined_valid, generator_vars, call_vars>>

\* The lists the four nested loops run over: candidates[:20].
SearchList(cands) == Take(cands, CombinationLimit)

\* The combination the loops are at.
CurrentSet ==
    LampPrimerSet(SearchList(f3_candidates)[idx[1]], SearchList(b3_candidates)[idx[2]],
                  SearchList(fip_candidates)[idx[3]], SearchList(bip_candidates)[idx[4]])

\* The try block of the innermost loop: the set to append, or the exception
\* one of the two except clauses catches.
try_combination(ps, include_loops, lfs, lbs) ==
    LET v == validate_primer_set_geometry(ps)
        with_lf == IF include_loops /\ lfs # <<>>
                   THEN [v.set EXCEPT !.lf = lfs[1]] ELSE v.set
        with_lb == IF include_loops /\ lbs # <<>>
                   THEN [with_lf EXCEPT !.lb = lbs[1]] ELSE with_lf
    IN IF v.error.raised # "none"
       THEN [caught |-> v.error.raised, set |-> ps]
       ELSE [caught |-> "none", set |-> score_primer_set(with_lb)]

\* Where the loops go after a combination: "stop" once the result count is
\* reached (the break of the innermost loop, or the check after a loop that
\* ran out, each followed by the breaks of the enclosing loops), else the next
\* combination, else "stop" when the outermost loop has run out.
NextIndex(i, lens, broke, full) ==
    IF broke THEN <<>>
    ELSE IF i[4] < lens[4] THEN <<i[1], i[2], i[3], i[4] + 1>>
    ELSE IF full THEN <<>>
    ELSE IF i[3] < lens[3] THEN <<i[1], i[2], i[3] + 1, 1>>
    ELSE IF i[2] < lens[2] THEN <<i[1], i[2] + 1, 1, 1>>
    ELSE IF i[1] < lens[1] THEN <<i[1] + 1, 1, 1, 1>>
    ELSE <<>>

TryCombination ==
    /\ pc = "search"
    /\ LET t == try_combination(CurrentSet, include_loop_primers,
                                lf_candidates, lb_candidates)
           sets == IF t.caught = "none" THEN Append(primer_sets, t.set)
                   ELSE primer_sets
           full == Len(sets) >= max_candidates
           next == NextIndex(idx,
                             <<Len(SearchList(f3_candidates)), Len(SearchList(b3_candidates)),
                               Len(SearchList(fip_candidates)), Len(SearchList(bip_candidates))>>,
                             t.caught = "none" /\ full, full)
       IN /\ combinations_tested' = combinations_tested + 1
          /\ primer_sets' = sets
          /\ examined_valid' = (examined_valid \/ SatisfiesAllRules(CurrentSet))
          /\ IF next = <<>> THEN pc' = "finish" /\ UNCHANGED idx
                            ELSE pc' = "search" /\ idx' = next
    /\ UNCHANGED <<seq_len, u_pos, include_loop_primers, max_candidates,
                   f3_candidates, b3_candidates, fip_candidates, bip_candidates,
                   lf_candidates, lb_candidates, result, raised_by, generator_vars, call_vars>>

\* if not primer_sets: raise InsufficientCandidatesError("primer_sets", 0, 1)
\* primer_sets.sort(...); return primer_sets
finish_search(sets) ==
    IF sets = <<>> THEN InsufficientCandidatesError("primer_sets", 0, 1)
    ELSE Returned(SortByOverall(sets))

Finish ==
    /\ pc = "finish"
    /\ result' = finish_search(primer_sets)
    /\ raised_by' = IF primer_sets = <<>> THEN "design_primer_set" ELSE "none"
    /\ pc' = "done"
    /\ UNCHANGED <<seq_len, u_pos, include_loop_primers, max_candidates,
                   f3_candidates, b3_candidates, fip_candidates, bip_candidates,
                   lf_candidates, lb_candidates, idx, combinations_tested,
                   primer_sets, examined_valid, generator_vars, call_vars>>

Next ==
    \/ GenerateF3 \/ GenerateB3 \/ GenerateFIP \/ GenerateBIP
    \/ CheckMinimum
    \/ GenerateLF \/ GenerateLB
    \/ TryCombination
    \/ Finish

Spec == Init /\ [][Next]_vars

-----------------------------------------------------------------------------
(* One generator run, window by window.                                    *)

\* What the calculator and the filter may make of one window.
TrialVerdicts ==
    {Verdict("ok", 0, 58, 40, 0 - 3), Verdict("ok", 0 - 1, 65, 60, 0),
     Verdict("ok", 0, 57, 50, 0), Verdict("ok", 0, 66, 50, 0),
     Verdict("ok", 0, 60, 39, 0), Verdict("ok", 0, 60, 61, 0),
     Verdict("ok", 0, 60, 50, 0 - 4), Verdict("reject", 0, 60, 50, 0),
     Verdict("thermo_error", 0, 0, 0, 0), Verdict("composition_error", 0, 0, 0, 0)}

GenInit ==
    /\ \E t \in Targets : seq_len = t.seq_len /\ u_pos = t.u_pos
    /\ include_loop_primers = FALSE
    /\ max_candidates = 0
    /\ pc = "idle"
    /\ f3_candidates = <<>> /\ b3_candidates = <<>>
    /\ fip_candidates = <<>> /\ bip_candidates = <<>>
    /\ lf_candidates = <<>> /\ lb_candidates = <<>>
    /\ idx = <<1, 1, 1, 1>>
    /\ combinations_tested = 0
    /\ primer_sets = <<>>
    /\ examined_valid = FALSE
    /\ result = NoResult
    /\ raised_by = "none"
    /\ g_role \in Roles
    /\ g_windows = WindowsOf(g_role, seq_len)
    /\ g_pos = 1
    /\ g_cands = <<>>
    /\ g_state = "running"
    /\ g_skipped = 0
    /\ CallIdle

\* One pass of the generator's innermost loop.
GenTrial ==
    /\ g_state = "running"
    /\ g_pos <= Len(g_windows)
    /\ \E v \in TrialVerdicts :
         LET t == Trial(g_windows[g_pos], v, u_pos)
         IN CASE t.kind = "raise" ->
                   /\ g_state' = "raised"
                   /\ UNCHANGED <<g_pos, g_cands, g_skipped>>
              [] t.kind = "append" ->
                   /\ g_cands' = Append(g_cands, t.primer)
                   /\ g_pos' = g_pos + 1
                   /\ UNCHANGED <<g_state, g_skipped>>
              [] OTHER ->
                   /\ g_skipped' = g_skipped + (IF t.error = "caught" THEN 1 ELSE 0)
                   /\ g_pos' = g_pos + 1
                   /\ UNCHANGED <<g_state, g_cands>>
    /\ UNCHANGED <<g_role, g_windows, pipeline_vars, call_vars>>

\* candidates.sort(...); return candidates[:50]
GenReturn ==
    /\ g_state = "running"
    /\ g_pos > Len(g_windows)
    /\ g_cands' = TopOf(g_role, g_cands)
    /\ g_state' = "returned"
    /\ UNCHANGED <<g_role, g_windows, g_pos, g_skipped, pipeline_vars, call_vars>>

GenNext == GenTrial \/ GenReturn

GenSpec == GenInit /\ [][GenNext]_vars

-----------------------------------------------------------------------------
(* The functions of utils.py, called directly.                             *)

\* The regions of one primer layout, left to right: F3, F2, F1c, B1c, B2, B3,
\* with the given lengths, F3-to-F2 gap g1, F2-to-B2 amplicon amp and
\* B2-to-B3 gap g2; with_inner = FALSE leaves out the four inner regions (a
\* set whose FIP and BIP carry no sub-sequences).
LayoutRegions(f3_len, g1, f2_len, f1c_len, b1c_len, b2_len, amp, g2, b3_len, with_inner) ==
    LET f2_start == f3_len + g1
        f2_end == f2_start + f2_len - 1
        f1c_start == f2_end + InnerSpacing + 1
        b2_start == f2_end + 1 + amp
        b2_end == b2_start + b2_len - 1
        b1c_end == b2_start - InnerSpacing - 1
        b3_start == b2_end + 1 + g2
        all == [name \in {"F3", "F2", "F1c", "B1c", "B2", "B3"} |->
                  CASE name = "F3" -> <<0, f3_len - 1>>
                    [] name = "F2" -> <<f2_start, f2_end>>
                    [] name = "F1c" -> <<f1c_start, f1c_start + f1c_len - 1>>
                    [] name = "B1c" -> <<b1c_end - b1c_len + 1, b1c_end>>
                    [] name = "B2" -> <<b2_start, b2_end>>
                    [] name = "B3" -> <<b3_start, b3_start + b3_len - 1>>]
    IN IF with_inner THEN all ELSE [name \in {"F3", "B3"} |-> all[name]]

\* Values at and around the ends of a range.
EdgeValues(lo, hi) == UNION {{lo - d, hi + d} : d \in 0..MaxSlack}

\* Gaps between F3 and F2 and between B2 and B3: overlapping by one base,
\* adjacent, and one more than the default maximum spacing.
GapSamples == {0 - 1, 0, DEFAULT_CONSTRAINTS.F3_F2_spacing_max + 1}

\* Constraint dictionaries handed to the validator: the defaults, the
\* defaults with the F3 length range of the custom-constraints test, and a
\* dictionary that holds only those two keys.
ConstraintSamples ==
    {DEFAULT_CONSTRAINTS,
     [DEFAULT_CONSTRAINTS EXCEPT !.F3_length_min = 18, !.F3_length_max = 22],
     [F3_length_min |-> 18, F3_length_max |-> 22]}

RegionSamples ==
    {LayoutRegions(f3_len, g1, DEFAULT_CONSTRAINTS.F2_length_min, fip_len
                     - DEFAULT_CONSTRAINTS.F2_length_min,
                   bip_len - DEFAULT_CONSTRAINTS.B2_length_min,
                   DEFAULT_CONSTRAINTS.B2_length_min, amp, g2, b3_len, TRUE) :
        f3_len \in EdgeValues(15, 25) \cup {20},
        b3_len \in EdgeValues(15, 25),
        fip_len \in EdgeValues(35, 50),
        bip_len \in EdgeValues(35, 50),
        amp \in EdgeValues(120, 200),
        g1 \in GapSamples, g2 \in GapSamples}
    \cup
    {LayoutRegions(f3_len, 0, 18, 17, 17, 18, 120, 0, b3_len, FALSE) :
        f3_len \in EdgeValues(15, 25), b3_len \in EdgeValues(15, 25)}

UtilInit ==
    /\ seq_len = 400 /\ u_pos = NoU
    /\ include_loop_primers = FALSE
    /\ max_candidates = 0
    /\ pc = "idle"
    /\ f3_candidates = <<>> /\ b3_candidates = <<>>
    /\ fip_candidates = <<>> /\ bip_candidates = <<>>
    /\ lf_candidates = <<>> /\ lb_candidates = <<>>
    /\ idx = <<1, 1, 1, 1>>
    /\ combinations_tested = 0
    /\ primer_sets = <<>>
    /\ examined_valid = FALSE
    /\ result = NoResult
    /\ raised_by = "none"
    /\ GenIdle
    /\ CallIdle

\* What a direct call did: returned a value or raised an exception.
ReturnValue(v) == [kind |-> "return", value |-> v]
Raise(e) == [kind |-> "raise", error |-> e]
Outcome(e) == IF e.raised = "none" THEN ReturnValue("None") ELSE Raise(e)

\* validate_primer_geometry_full(regions, constraints)
CallValidateGeometryFull ==
    /\ call = NoCall
    /\ \E regions \in RegionSamples, cons \in ConstraintSamples :
         /\ call' = [fn |-> "validate_primer_geometry_full", regions |-> regions,
                     constraints |-> cons]
         /\ ret' = Outcome(validate_primer_geometry_full(regions, cons))
    /\ UNCHANGED <<class_constraints, self_constraints, exclusion_sequences,
                   pipeline_vars, generator_vars>>

\* Strings are sequences of one-character strings.
\* str.upper() on one character.
Upper(base) ==
    CASE base = "a" -> "A" [] base = "t" -> "T" [] base = "c" -> "C"
      [] base = "g" -> "G" [] base = "u" -> "U" [] OTHER -> base

\* The map with 'Y' complemented to itself.
complement_map_y_fixed ==
    [base \in {"A", "T", "C", "G", "R", "Y", "K", "M", "S", "W", "B", "D", "H", "V", "N"} |->
        CASE base = "A" -> "T" [] base = "T" -> "A" [] base = "C" -> "G"
          [] base = "G" -> "C" [] base = "R" -> "Y" [] base = "Y" -> "Y"
          [] base = "K" -> "M" [] base = "M" -> "K" [] base = "S" -> "S"
          [] base = "W" -> "W" [] base = "B" -> "V" [] base = "D" -> "H"
          [] base = "H" -> "D" [] base = "V" -> "B" [] base = "N" -> "N"]

complement_map ==
    [base \in {"A", "T", "C", "G", "R", "Y", "K", "M", "S", "W", "B", "D", "H", "V", "N"} |->
        CASE base = "A" -> "T" [] base = "T" -> "A" [] base = "C" -> "G"
          [] base = "G" -> "C" [] base = "R" -> "Y" [] base = "Y" -> "R"
          [] base = "K" -> "M" [] base = "M" -> "K" [] base = "S" -> "S"
          [] base = "W" -> "W" [] base = "B" -> "V" [] base = "D" -> "H"
          [] base = "H" -> "D" [] base = "V" -> "B" [] base = "N" -> "N"]

\* reverse_complement(sequence): the complement of every base, reversed;
\* ValueError when a base is not in the map.
reverse_complement(sequence) ==
    IF \E i \in 1..Len(sequence) : Upper(sequence[i]) \notin DOMAIN complement_map
    THEN Raise([raised |-> "ValueError"])
    ELSE ReturnValue([i \in 1..Len(sequence) |->
                        complement_map[Upper(sequence[Len(sequence) + 1 - i])]])

\* The characters of the strings handed to reverse_complement: the upper-case
\* alphabet, an RNA base and a lower-case base.
BaseSamples == DOMAIN complement_map \cup {"U", "a"}

StringSamples == UNION {[1..n -> BaseSamples] : n \in 0..MaxStrLen}

\* reverse_complement(sequence)
CallReverseComplement ==
    /\ call = NoCall
    /\ \E sequence \in StringSamples :
         /\ call' = [fn |-> "reverse_complement", sequence |-> sequence]
         /\ ret' = reverse_complement(sequence)
    /\ UNCHANGED <<class_constraints, self_constraints, exclusion_sequences,
                   pipeline_vars, generator_vars>>

\* Defaults of validate_sequence_composition and, in tenths of kcal/mol, of
\* has_strong_secondary_structure.
min_gc == 30
max_gc == 70
max_homopolymer == 4
MaxStemLen == 4
MinStemLen == 3
default_max_hairpin_dg == 0 - 30

\* The rough estimate with 2.5 kcal/mol per base pair.
StemEstimate_steep(stem_len) == 40 - 25 * stem_len

\* estimated_dg = -1.5 * stem_len + 4.0, in tenths of kcal/mol.
StemEstimate(stem_len) == 40 - 15 * stem_len

\* One pass of the inner loop of has_strong_secondary_structure, i and j being
\* Python's 0-based indices.
StemOutcome(sequence, i, j, max_hairpin_dg) ==
    LET stem_len == Min(MaxStemLen, Min(Len(sequence) - j, i + 1))
    IN IF stem_len < MinStemLen THEN "continue"
       ELSE LET left == SubSeq(sequence, i - stem_len + 2, i + 1)
                right == SubSeq(sequence, j + 1, j + stem_len)
                rc == reverse_complement(right)
            IN IF rc.kind = "raise" THEN "raise"
               ELSE IF left = rc.value /\ StemEstimate(stem_len) < max_hairpin_dg
               THEN "return True"
               ELSE "continue"

\* has_strong_secondary_structure(sequence, max_hairpin_dg)
has_strong_secondary_structure(sequence, max_hairpin_dg) ==
    LET length == Len(sequence)
        i_values == Range(0, length - 6)
        j_values(i) == Range(i + 4, Min(i + 15, length))
        passes == Flatten([a \in 1..Len(i_values) |->
                     [b \in 1..Len(j_values(i_values[a])) |->
                        StemOutcome(sequence, i_values[a], j_values(i_values[a])[b],
                                    max_hairpin_dg)]])
        Decisive(o) == o # "continue"
        decisive == SelectSeq(passes, Decisive)
    IN IF decisive = <<>> THEN ReturnValue(FALSE)
       ELSE IF decisive[1] = "raise" THEN Raise([raised |-> "ValueError"])
       ELSE ReturnValue(TRUE)

\* sequence.upper().count('G') + sequence.upper().count('C')
GcCount(sequence) ==
    Cardinality({i \in 1..Len(sequence) : Upper(sequence[i]) \in {"G", "C"}})

\* (base * n) in sequence.upper()
HasRun(sequence, base, n) ==
    \E k \in 1..(Len(sequence) - n + 1) :
       \A i \in k..(k + n - 1) : Upper(sequence[i]) = base

\* validate_sequence_composition without the 3'-end check.
validate_sequence_composition_no_end_check(sequence) ==
    LET n == Len(sequence)
        too_low == IF n = 0 THEN TRUE ELSE 100 * GcCount(sequence) < min_gc * n
        too_high == n > 0 /\ 100 * GcCount(sequence) > max_gc * n
    IN IF too_low \/ too_high THEN Raise([raised |-> "ValueError"])
       ELSE IF \E base \in {"A", "T", "G", "C"} : HasRun(sequence, base, max_homopolymer + 1)
       THEN Raise([raised |-> "ValueError"])
       ELSE ReturnValue([is_valid |-> TRUE, issues |-> <<>>])

\* validate_sequence_composition(sequence) with its default parameters: raises
\* ValueError or returns (is_valid, issues).
validate_sequence_composition(sequence) ==
    LET n == Len(sequence)
        too_low == IF n = 0 THEN TRUE ELSE 100 * GcCount(sequence) < min_gc * n
        too_high == n > 0 /\ 100 * GcCount(sequence) > max_gc * n
        strong == has_strong_secondary_structure(sequence, default_max_hairpin_dg)
        issues == (IF strong.kind = "return" /\ strong.value
                   THEN <<"Strong secondary structure predicted">> ELSE <<>>)
                  \o (IF n > 0 /\ sequence[n] \in {"G", "C"}
                      THEN <<"Strong 3'-end (G/C) may cause non-specific priming">>
                      ELSE <<>>)
    IN IF too_low \/ too_high THEN Raise([raised |-> "ValueError"])
       ELSE IF \E base \in {"A", "T", "G", "C"} : HasRun(sequence, base, max_homopolymer + 1)
       THEN Raise([raised |-> "ValueError"])
       ELSE IF strong.kind = "raise" THEN strong
       ELSE ReturnValue([is_valid |-> issues = <<>>, issues |-> issues])

\* Sequences with two stems around a three-base loop, the second stem being
\* the reverse complement of the first, the first again, or ACGT; the same
\* with stems of three bases; and the empty, a lower-case and an RNA sequence.
StemSamples ==
    UNION {[1..n -> {"A", "C", "G", "T"}] : n \in MinStemLen..MaxStemLen}

SequenceSamples ==
    UNION {{left \o mid \o right :
              mid \in {<<"A", "T", "A">>, <<"A", "A", "G">>},
              right \in {reverse_complement(left).value, left, <<"A", "C", "G", "T">>}} :
           left \in StemSamples}
      \cup {<<>>, <<"a", "c", "g", "a", "t", "a", "c", "g", "t">>,
            <<"A", "C", "G", "A", "T", "A", "C", "G", "U">>}

\* has_strong_secondary_structure(sequence) and
\* has_strong_secondary_structure(sequence, -1.0)
CallHasStrongSecondaryStructure ==
    /\ call = NoCall
    /\ \E sequence \in SequenceSamples, max_hairpin_dg \in {default_max_hairpin_dg, 0 - 10} :
         /\ call' = [fn |-> "has_strong_secondary_structure", sequence |-> sequence,
                     max_hairpin_dg |-> max_hairpin_dg]
         /\ ret' = has_strong_secondary_structure(sequence, max_hairpin_dg)
    /\ UNCHANGED <<class_constraints, self_constraints, exclusion_sequences,
                   pipeline_vars, generator_vars>>

\* validate_sequence_composition(sequence)
CallValidateSequenceComposition ==
    /\ call = NoCall
    /\ \E sequence \in SequenceSamples :
         /\ call' = [fn |-> "validate_sequence_composition", sequence |-> sequence]
         /\ ret' = validate_sequence_composition(sequence)
    /\ UNCHANGED <<class_constraints, self_constraints, exclusion_sequences,
                   pipeline_vars, generator_vars>>

\* Positions handed to validate_primer_geometry: small ones, and two at the
\* amplicon floor of 120.
Coords == (0..MaxCoord) \cup {120, 121}

\* validate_primer_geometry(f3_start, f3_end, b3_start, b3_end, fip_start,
\*                          fip_end, bip_start, bip_end)
CallValidateGeometry ==
    /\ call = NoCall
    /\ \E f3_end \in Coords, b3_start \in Coords, fip_start \in Coords,
          fip_end \in Coords, bip_start \in Coords, bip_end \in Coords :
         LET args == <<0, f3_end, b3_start, b3_start + 14, fip_start, fip_end,
                       bip_start, bip_end>>
         IN /\ call' = [fn |-> "validate_primer_geometry", args |-> args]
            /\ ret' = Outcome(call_validate_primer_geometry(args))
    /\ UNCHANGED <<class_constraints, self_constraints, exclusion_sequences,
                   pipeline_vars, generator_vars>>

\* The caller takes the outcome; the next call can start.
CallReturn ==
    /\ call # NoCall
    /\ call' = NoCall
    /\ ret' = NoReturn
    /\ UNCHANGED <<class_constraints, self_constraints, exclusion_sequences,
                   pipeline_vars, generator_vars>>

UtilNext ==
    \/ CallValidateGeometryFull
    \/ CallValidateGeometry
    \/ CallReverseComplement
    \/ CallHasStrongSecondaryStructure
    \/ CallValidateSequenceComposition
    \/ CallReturn

UtilSpec == UtilInit /\ [][UtilNext]_vars

-----------------------------------------------------------------------------
(* The designer's constructor and methods, called directly.                *)

\* dict.update: d with the entries of c written over it.
DictUpdate(d, c) ==
    [k \in DOMAIN d \cup DOMAIN c |-> IF k \in DOMAIN c THEN c[k] ELSE d[k]]

\* __init__ with self.constraints bound to the class dictionary itself.
PrimerDesigner_init_aliased(class_dict, custom) ==
    [self_constraints |-> DictUpdate(class_dict, custom),
     class_constraints |-> DictUpdate(class_dict, custom)]

\* PrimerDesigner.__init__(constraints): self.constraints is a new dictionary
\* {**self.DEFAULT_CONSTRAINTS}, updated when constraints is given and not
\* empty. <<>> stands for None and for {}.
PrimerDesigner_init(class_dict, custom) ==
    [self_constraints |-> IF DOMAIN custom # {} THEN DictUpdate(class_dict, custom)
                          ELSE class_dict,
     class_constraints |-> class_dict]

\* Dictionaries passed as constraints: none, the F3 range of the
\* custom-constraints test, an amplicon range, and the Tm, GC and hairpin
\* options of the parameter panel.
OverrideSamples ==
    {<<>>,
     [F3_length_min |-> 18, F3_length_max |-> 22],
     [F2_B2_amplicon_min |-> 100, F2_B2_amplicon_max |-> 160],
     [tm_min |-> 50, tm_max |-> 55],
     [gc_min |-> 30, gc_max |-> 39, hairpin_dg_max |-> 0 - 5]}

DesignerInit == UtilInit

\* designer = PrimerDesigner(constraints=custom)
Construct ==
    /\ call = NoCall
    /\ \E custom \in OverrideSamples :
         LET d == PrimerDesigner_init(class_constraints, custom)
         IN /\ self_constraints' = d.self_constraints
            /\ class_constraints' = d.class_constraints
            /\ call' = [fn |-> "PrimerDesigner", constraints |-> custom]
            /\ ret' = ReturnValue("self")
    /\ UNCHANGED <<exclusion_sequences, pipeline_vars, generator_vars>>

\* Primers handed to _is_valid_primer.
PrimerSamples ==
    {create_primer(Window("F3", 0, 17, "+", 0, 0, 0, 0), Verdict(kind, 0, tm, gc, dg)) :
        kind \in {"ok", "reject"}, tm \in {52, 57, 58, 65, 66},
        gc \in {35, 39, 40, 60, 61}, dg \in {0 - 4, 0 - 3, 0}}

\* Ten-base primer sequences: ATGCA and five more bases.
PrimerSequences ==
    {<<"A", "T", "G", "C", "A">> \o tail : tail \in [1..5 -> {"A", "C", "G", "T"}]}

\* The primer _create_primer builds for a sequence of a whole-number GC
\* percentage, with what validate_sequence_composition makes of the sequence.
SequencePrimer(sequence, tm, hairpin_dg) ==
    LET v == validate_sequence_composition(sequence)
        gc_content == (100 * GcCount(sequence)) \div Len(sequence)
    IN [create_primer(Window("F3", 0, Len(sequence) - 1, "+", 0, 0, 0, 0),
                      Verdict("ok", 0, tm, gc_content, hairpin_dg))
          EXCEPT !.composition = IF v.kind = "raise" THEN "raises"
                                 ELSE IF v.value.is_valid THEN "valid" ELSE "issues"]

\* _is_valid_primer(primer): the ValueError of validate_sequence_composition
\* leaves it, else it returns its verdict.
call_is_valid_primer(primer) ==
    IF primer.composition = "raises" THEN Raise([raised |-> "ValueError"])
    ELSE ReturnValue(is_valid_primer(primer))

\* designer._is_valid_primer(primer)
CallIsValidPrimer ==
    /\ call = NoCall
    /\ \/ \E primer \in PrimerSamples :
            /\ call' = [fn |-> "_is_valid_primer", primer |-> primer]
            /\ ret' = call_is_valid_primer(primer)
       \/ \E sequence \in PrimerSequences, tm \in {58, 66}, hairpin_dg \in {0 - 4, 0} :
            /\ call' = [fn |-> "_is_valid_primer",
                        primer |-> SequencePrimer(sequence, tm, hairpin_dg),
                        sequence |-> sequence]
            /\ ret' = call_is_valid_primer(SequencePrimer(sequence, tm, hairpin_dg))
    /\ UNCHANGED <<class_constraints, self_constraints, exclusion_sequences,
                   pipeline_vars, generator_vars>>

\* A primer of a sampled set.
SetPrimer(role, score, tm) ==
    create_primer(Window(role, 0, 17, "+", 0, 0, 0, 0), Verdict("ok", score, tm, 50, 0))

\* Primer sets handed to _score_primer_set: with and without loop primers,
\* with an amplicon not measured (0), below, at and above 160.
SetSamples ==
    {[LampPrimerSet(SetPrimer("F3", s1, t1), SetPrimer("B3", 0 - 1, 60),
                    SetPrimer("FIP", s3, 60), SetPrimer("BIP", 0 - 2, 61))
        EXCEPT !.lf = lf, !.lb = lb, !.f2_b2_amplicon_size = amp] :
        s1 \in {0, 0 - 3}, t1 \in {58, 64}, s3 \in {0, 0 - 2},
        lf \in {NoPrimer, SetPrimer("LF", 0 - 6, 59)},
        lb \in {NoPrimer, SetPrimer("LB", 0 - 1, 65)},
        amp \in {0, 130, 160, 201}}

\* designer._score_primer_set(primer_set): the set is modified in place.
CallScorePrimerSet ==
    /\ call = NoCall
    /\ \E primer_set \in SetSamples :
         /\ call' = [fn |-> "_score_primer_set", primer_set |-> primer_set]
         /\ ret' = ReturnValue(score_primer_set(primer_set))
    /\ UNCHANGED <<class_constraints, self_constraints, exclusion_sequences,
                   pipeline_vars, generator_vars>>

\* Every window a generator's loops enumerate on a target of n bases, in the
\* code's order.
FullWindows(role, n) ==
    CASE role = "F3" ->
           Flatten([l \in 1..Len(Range(constraints.F3_length_min, constraints.F3_length_max + 1)) |->
             LET length == constraints.F3_length_min + l - 1
                 starts == Range(0, Min(OuterSearchSpan, n - length + 1))
             IN [j \in 1..Len(starts) |->
                   Window("F3", starts[j], starts[j] + length - 1, "+", 0, 0, 0, 0)]])
      [] role = "B3" ->
           Flatten([l \in 1..Len(Range(constraints.B3_length_min, constraints.B3_length_max + 1)) |->
             LET length == constraints.B3_length_min + l - 1
                 starts == Range(Max(0, n - OuterSearchSpan), n - length + 1)
             IN [j \in 1..Len(starts) |->
                   Window("B3", starts[j], starts[j] + length - 1, "-", 0, 0, 0, 0)]])
      [] role = "FIP" ->
           LET f1c_lens == Range(constraints.F1c_length_min, constraints.F1c_length_max + 1)
               f2_lens == Range(constraints.F2_length_min, constraints.F2_length_max + 1)
               f1c_starts(f1c_len) == Range(n \div 3, n - f1c_len - InnerMargin)
               f2_starts(f1c_start) == Range(InnerMargin, f1c_start - InnerSpacing)
           IN Flatten([a \in 1..Len(f1c_lens) |-> Flatten([b \in 1..Len(f2_lens) |->
                Flatten([c \in 1..Len(f1c_starts(f1c_lens[a])) |->
                  LET f1c_start == f1c_starts(f1c_lens[a])[c]
                  IN [d \in 1..Len(f2_starts(f1c_start)) |->
                        Window("FIP", f2_starts(f1c_start)[d], f1c_start + f1c_lens[a] - 1,
                               "+", f1c_lens[a], f2_lens[b], 0, 0)]])])])
      [] role = "BIP" ->
           LET b1c_lens == Range(constraints.B1c_length_min, constraints.B1c_length_max + 1)
               b2_lens == Range(constraints.B2_length_min, constraints.B2_length_max + 1)
               b1c_starts == Range(InnerMargin, n \div 2)
               b2_starts(b1c_end, b2_len) == Range(b1c_end + InnerSpacing, n - b2_len - InnerMargin)
           IN Flatten([a \in 1..Len(b1c_lens) |-> Flatten([b \in 1..Len(b2_lens) |->
                Flatten([c \in 1..Len(b1c_starts) |->
                  LET b1c_end == b1c_starts[c] + b1c_lens[a] - 1
                  IN [d \in 1..Len(b2_starts(b1c_end, b2_lens[b])) |->
                        Window("BIP", b1c_starts[c],
                               b2_starts(b1c_end, b2_lens[b])[d] + b2_lens[b] - 1,
                               "-", 0, 0, b1c_lens[a], b2_lens[b])]])])])
      [] OTHER ->
           Flatten([l \in 1..Len(Range(constraints.LF_length_min, constraints.LF_length_max + 1)) |->
             LET length == constraints.LF_length_min + l - 1
                 starts == IF role = "LF"
                           THEN Range(n \div 4, Min(n \div 2, n - length + 1))
                           ELSE Range(n \div 2, Min((3 * n) \div 4, n - length + 1))
             IN [j \in 1..Len(starts) |->
                   Window(role, starts[j], starts[j] + length - 1,
                          IF role = "LF" THEN "+" ELSE "-", 0, 0, 0, 0)]])

\* A generator run over the windows ws: the list it returns.
generate_over(role, ws, vs, u) ==
    LET r == RunTrials(ws, vs, u, <<>>)
    IN TopOf(role, r.candidates)

\* What the calculator and the filter make of the i-th window of a run:
\* scores cycle with period m, every ninth window has a Tm above the range,
\* and "odd" rejects every second window for its composition, "thermo" lets
\* the calculator fail on every third.
PatternVerdict(pat, i) ==
    Verdict(IF pat.keep = "odd" /\ i % 2 = 0 THEN "reject"
            ELSE IF pat.keep = "thermo" /\ i % 3 = 0 THEN "thermo_error"
            ELSE "ok",
            0 - ((pat.a * i) % pat.m), 58 + (i % 9), 50, 0)

Patterns == [a : {0, 1, 3}, m : {1, 4, 7}, keep : {"all", "odd", "thermo"}]

\* Generator runs on targets short enough to walk every window: fewer and
\* more windows than the generator returns, and the shortest targets that
\* have FIP and BIP windows.
GeneratorTargets ==
    {<<"F3", 20>>, <<"F3", 25>>, <<"B3", 25>>, <<"FIP", 137>>, <<"FIP", 138>>,
     <<"BIP", 155>>, <<"LF", 30>>, <<"LB", 44>>}

\* designer._generate_<role>_candidates(target)
CallGenerator ==
    /\ call = NoCall
    /\ self_constraints = DEFAULT_CONSTRAINTS
    /\ \E t \in GeneratorTargets, pat \in Patterns :
         LET ws == FullWindows(t[1], t[2])
         IN /\ call' = [fn |-> "_generate_candidates", role |-> t[1],
                        seq_len |-> t[2], pattern |-> pat]
            /\ ret' = ReturnValue(generate_over(t[1], ws,
                          [i \in 1..Len(ws) |-> PatternVerdict(pat, i)], NoU))
    /\ UNCHANGED <<class_constraints, self_constraints, exclusion_sequences,
                   pipeline_vars, generator_vars>>

DesignerNext ==
    \/ Construct
    \/ CallIsValidPrimer
    \/ CallScorePrimerSet
    \/ CallGenerator
    \/ CallReturn

DesignerSpec == DesignerInit /\ [][DesignerNext]_vars

-----------------------------------------------------------------------------
(* The search loop of design_primer_set, entered with candidate lists as   *)
(* the generators of a 400-base target return them.                        *)

\* The i-th candidate of a returned list: F3 windows from the 5' end, B3
\* windows from the start of the last 50 bases, FIP windows with F2 from
\* position 50 and F1c at seq_len // 3, BIP windows with B1c at 150 and B2
\* behind it; scores non-increasing along the list.
ListedPrimer(role, i) ==
    LET w == CASE role = "F3" -> Window("F3", i - 1, i + 13, "+", 0, 0, 0, 0)
               [] role = "B3" -> Window("B3", 349 + i, 363 + i, "-", 0, 0, 0, 0)
               [] role = "FIP" -> Window("FIP", 49 + i, 149, "+", 17, 18, 0, 0)
               [] OTHER -> Window("BIP", 150, 207 + i, "-", 0, 0, 17, 18)
    IN create_primer(w, Verdict("ok", 0 - (i \div 4), 60 + (i % 3), 50, 0))

CandidateList(role, n) == [i \in 1..n |-> ListedPrimer(role, i)]

\* Lengths of the four lists: the minimum everywhere, or one list longer
\* than the slice the loops take.
ListLengths ==
    {<<min_candidates, min_candidates, min_candidates, min_candidates>>}
      \cup {[r \in 1..4 |-> IF r = long THEN CombinationLimit + 1 ELSE min_candidates] :
              long \in 1..4}

SearchInit ==
    /\ seq_len = 400 /\ u_pos = NoU
    /\ include_loop_primers = FALSE
    /\ max_candidates \in 0..MaxResults
    /\ pc = "search"
    /\ \E lens \in ListLengths :
         /\ f3_candidates = CandidateList("F3", lens[1])
         /\ b3_candidates = CandidateList("B3", lens[2])
         /\ fip_candidates = CandidateList("FIP", lens[3])
         /\ bip_candidates = CandidateList("BIP", lens[4])
    /\ lf_candidates = <<>> /\ lb_candidates = <<>>
    /\ idx = <<1, 1, 1, 1>>
    /\ combinations_tested = 0
    /\ primer_sets = <<>>
    /\ examined_valid = FALSE
    /\ result = NoResult
    /\ raised_by = "none"
    /\ GenIdle
    /\ CallIdle

SearchNext ==
    \/ TryCombination
    \/ Finish

SearchSpec == SearchInit /\ [][SearchNext]_vars

-----------------------------------------------------------------------------
(* The exclusion list of SpecificityChecker (specificity_checker.py).      *)

\* sequence.upper()
UpperSeq(sequence) == [i \in 1..Len(sequence) |-> Upper(sequence[i])]

\* x in list
IsIn(x, list) == \E i \in 1..Len(list) : list[i] = x

\* add_exclusion_sequence(sequence): the list afterwards.
add_exclusion_sequence(list, sequence) ==
    IF ~IsIn(sequence, list) THEN Append(list, UpperSeq(sequence)) ELSE list

\* remove_exclusion_sequence(sequence): list.remove takes out the first
\* occurrence.
remove_exclusion_sequence(list, sequence) ==
    IF IsIn(UpperSeq(sequence), list)
    THEN LET first == CHOOSE i \in 1..Len(list) :
                         /\ list[i] = UpperSeq(sequence)
                         /\ \A j \in 1..(i - 1) : list[j] # UpperSeq(sequence)
         IN SubSeq(list, 1, first - 1) \o SubSeq(list, first + 1, Len(list))
    ELSE list

\* Arguments of the two calls: a sequence in upper, lower and mixed case, and
\* a default entry in upper and lower case.
ExclusionSamples ==
    {<<"A", "C">>, <<"a", "c">>, <<"A", "c">>, PolyBase("G"), PolyBase("g")}

SpecificityInit == UtilInit

\* checker.add_exclusion_sequence(sequence)
AddExclusionSequence ==
    /\ call = NoCall
    /\ Len(exclusion_sequences) < MaxExclusions
    /\ \E sequence \in ExclusionSamples :
         /\ exclusion_sequences' = add_exclusion_sequence(exclusion_sequences, sequence)
         /\ call' = [fn |-> "add_exclusion_sequence", sequence |-> sequence]
         /\ ret' = ReturnValue("None")
    /\ UNCHANGED <<class_constraints, self_constraints, pipeline_vars, generator_vars>>

\* checker.remove_exclusion_sequence(sequence)
RemoveExclusionSequence ==
    /\ call = NoCall
    /\ \E sequence \in ExclusionSamples :
         /\ exclusion_sequences' = remove_exclusion_sequence(exclusion_sequences, sequence)
         /\ call' = [fn |-> "remove_exclusion_sequence", sequence |-> sequence]
         /\ ret' = ReturnValue("None")
    /\ UNCHANGED <<class_constraints, self_constraints, pipeline_vars, generator_vars>>

SpecificityNext ==
    \/ AddExclusionSequence
    \/ RemoveExclusionSequence
    \/ CallReturn

SpecificitySpec == SpecificityInit /\ [][SpecificityNext]_vars

-----------------------------------------------------------------------------
(* Properties.                                                             *)

\* The four mandatory generators have all returned their lists.
MandatoryListsBuilt ==
    pc \in {"gen_lf", "gen_lb", "search", "finish"}
    \/ (pc = "done" /\ raised_by \notin {"_generate_f3_candidates",
                                         "_generate_b3_candidates",
                                         "_generate_fip_candidates",
                                         "_generate_bip_candidates"})

\* The sum of the configured minimum lengths of F3, F2, F1c, B1c, B2, B3, LF, LB.
MinFootprint ==
    constraints.F3_length_min + constraints.F2_length_min
    + constraints.F1c_length_min + constraints.B1c_length_min
    + constraints.B2_length_min + constraints.B3_length_min
    + constraints.LF_length_min + constraints.LB_length_min

\* C1: design_primer_set ends either by returning a list with at least one
\* primer set or by raising InsufficientCandidatesError, and when the search
\* ends with no retained set the error is
\* InsufficientCandidatesError("primer_sets", 0, 1).
C1_NonEmptyOrInsufficient ==
    pc = "done" =>
       /\ \/ (result.kind = "returned" /\ Len(result.sets) >= 1)
          \/ result.kind = "InsufficientCandidatesError"
       /\ (combinations_tested > 0 /\ primer_sets = <<>>) =>
             result = InsufficientCandidatesError("primer_sets", 0, 1)

\* C2: InsufficientCandidatesError is the only error design_primer_set
\* propagates to its caller: no run ends with any other exception.
C2_OnlyInsufficientPropagates ==
    result.kind \in {"none", "returned", "InsufficientCandidatesError"}

\* C3: in every generator an error at one window skips only that window: no
\* generator run is ended by a window's error, and a run that has tried all
\* its windows returns.
C3_WindowErrorSkipsOnlyWindow ==
    /\ g_state # "raised"
    /\ g_state = "returned" => g_pos = Len(g_windows) + 1

C5_ShortTargetInsufficient ==
    (pc = "done" /\ seq_len < MinFootprint) =>
        result.kind = "InsufficientCandidatesError"

\* C8: whenever an examined combination satisfies every geometric rule,
\* design_primer_set returns a non-empty list.
C8_ValidCombinationRetained ==
    (pc = "done" /\ examined_valid) =>
        (result.kind = "returned" /\ result.sets # <<>>)

\* A direct call of validate_primer_geometry_full on six regions has returned
\* or raised.
FullCallDone ==
    /\ call.fn = "validate_primer_geometry_full"
    /\ DOMAIN call.regions = {"F3", "F2", "F1c", "B1c", "B2", "B3"}

\* C11: every set accepted by geometric validation has its F3-to-F2 spacing and
\* its B2-to-B3 spacing inside the configured ranges, F3 ending before F2
\* starts and B2 ending before B3 starts.
C11_AcceptedSpacingInRange ==
    (FullCallDone /\ DOMAIN call.constraints = DOMAIN DEFAULT_CONSTRAINTS
     /\ ret.kind = "return") =>
       LET r == call.regions
           c == call.constraints
           f3_f2 == r["F2"][1] - r["F3"][2] - 1
           b3_b2 == r["B3"][1] - r["B2"][2] - 1
       IN /\ c.F3_F2_spacing_min <= f3_f2 /\ f3_f2 <= c.F3_F2_spacing_max
          /\ c.B3_B2_spacing_min <= b3_b2 /\ b3_b2 <= c.B3_B2_spacing_max

\* The five rules of validate_primer_geometry_full as <<name, min key, max key,
\* observed value>>.
C13_Rules(r) ==
    {<<"F3_length", "F3_length_min", "F3_length_max", r["F3"][2] - r["F3"][1] + 1>>,
     <<"B3_length", "B3_length_min", "B3_length_max", r["B3"][2] - r["B3"][1] + 1>>,
     <<"FIP_length", "FIP_length_min", "FIP_length_max",
       (r["F1c"][2] - r["F1c"][1] + 1) + (r["F2"][2] - r["F2"][1] + 1)>>,
     <<"BIP_length", "BIP_length_min", "BIP_length_max",
       (r["B1c"][2] - r["B1c"][1] + 1) + (r["B2"][2] - r["B2"][1] + 1)>>,
     <<"F2_B2_amplicon", "F2_B2_amplicon_min", "F2_B2_amplicon_max",
       r["B2"][1] - r["F2"][2] - 1>>}

\* C13: validate_primer_geometry_full raises, when exactly one of its five
\* rules is violated, the GeometricConstraintError that names that rule, the
\* configured "min-max" range and the observed value, and returns without
\* raising when no rule is violated.
C13_FullNamesViolatedRule ==
    (FullCallDone /\ DOMAIN call.constraints = DOMAIN DEFAULT_CONSTRAINTS) =>
       LET c == call.constraints
           violated == {x \in C13_Rules(call.regions) : x[4] < c[x[2]] \/ x[4] > c[x[3]]}
       IN /\ violated = {} => ret = [kind |-> "return", value |-> "None"]
          /\ \A x \in violated :
                violated = {x} =>
                   /\ ret.kind = "raise"
                   /\ ret.error.raised = "GeometricConstraintError"
                   /\ ret.error.constraint_type = x[1]
                   /\ ret.error.expected = ToString(c[x[2]]) \o "-" \o ToString(c[x[3]])
                   /\ ret.error.actual = ToString(x[4])

\* C13 witness: the amplicon, one base over its maximum, was the only rule
\* violated and the call raised.
C13_Witness ==
    /\ FullCallDone
    /\ call.constraints = DEFAULT_CONSTRAINTS
    /\ ret.kind = "raise"
    /\ ret.error.constraint_type = "F2_B2_amplicon"
    /\ ret.error.actual = "201"
    /\ call.regions["F3"] = <<0, 14>>
    /\ call.regions["B3"][2] - call.regions["B3"][1] = 24

\* C14: validate_primer_geometry raises GeometricConstraintError exactly when
\* f3_end >= fip_start, fip_end >= bip_start, bip_end >= b3_start or
\* b3_start - f3_end < 120, naming the first of these that is violated in the
\* order F3_FIP_overlap, FIP_BIP_overlap, BIP_B3_overlap, amplicon_size, and
\* returns without raising when none is.
C14_GeometryNamesFirstViolation ==
    call.fn = "validate_primer_geometry" =>
       LET a == call.args
           names == <<"F3_FIP_overlap", "FIP_BIP_overlap", "BIP_B3_overlap",
                      "amplicon_size">>
           conds == <<a[2] >= a[5], a[6] >= a[7], a[8] >= a[3], a[3] - a[2] < 120>>
           hit == {i \in 1..4 : conds[i]}
       IN /\ hit = {} => ret = [kind |-> "return", value |-> "None"]
          /\ hit # {} =>
                /\ ret.kind = "raise"
                /\ ret.error.raised = "GeometricConstraintError"
                /\ ret.error.constraint_type =
                      names[CHOOSE i \in hit : \A j \in hit : i <= j]

\* C14 witness: F3 ends exactly where FIP starts and the amplicon is too short
\* as well; the call raised F3_FIP_overlap.
C14_Witness ==
    /\ call.fn = "validate_primer_geometry"
    /\ call.args[2] = call.args[5]
    /\ call.args[3] - call.args[2] < 120
    /\ ret.kind = "raise"
    /\ ret.error.constraint_type = "F3_FIP_overlap"

\* C19: reverse_complement(reverse_complement(s)) = s for every string s over
\* the upper-case alphabet A, T, C, G and the ambiguity codes, the empty string
\* included.
C19_ReverseComplementInvolution ==
    (/\ call.fn = "reverse_complement"
     /\ \A i \in 1..Len(call.sequence) :
           call.sequence[i] \in {"A", "T", "C", "G", "R", "Y", "K", "M", "S", "W",
                                 "B", "D", "H", "V", "N"}) =>
       /\ ret.kind = "return"
       /\ Len(ret.value) = Len(call.sequence)
       /\ reverse_complement(ret.value) = [kind |-> "return", value |-> call.sequence]

\* C19 witness: a string with ambiguity codes was reverse-complemented.
C19_Witness ==
    /\ call.fn = "reverse_complement"
    /\ call.sequence = <<"A", "Y", "B">>
    /\ ret = [kind |-> "return", value |-> <<"V", "R", "T">>]

\* C15: every candidate a generator holds or returns has tm within
\* [58, 65], gc_content within [40, 60] and hairpin_dg not below -3; a window
\* that fails one of these tests is never in the list.
C15_CandidatesInsideRanges ==
    \A i \in 1..Len(g_cands) :
       /\ 58 <= g_cands[i].tm /\ g_cands[i].tm <= 65
       /\ 40 <= g_cands[i].gc_content /\ g_cands[i].gc_content <= 60
       /\ g_cands[i].hairpin_dg >= 0 - 3

\* C15 witness: a generator returned candidates at the ends of the ranges and
\* left out some of its windows.
C15_Witness ==
    /\ g_state = "returned"
    /\ g_skipped = 0
    /\ Len(g_cands) >= 2
    /\ Len(g_cands) < Len(g_windows)
    /\ \E i \in 1..Len(g_cands) :
          g_cands[i].tm = 58 /\ g_cands[i].gc_content = 40 /\ g_cands[i].hairpin_dg = 0 - 3
    /\ \E i \in 1..Len(g_cands) : g_cands[i].tm = 65 /\ g_cands[i].gc_content = 60

\* C16: PrimerDesigner(constraints=c) holds c's value for every key of c and
\* the default for every other key, and constructing designers never changes
\* the class-level DEFAULT_CONSTRAINTS, so a designer constructed without
\* arguments has exactly the defaults.
C16_ConstructorOverridesAndKeepsDefaults ==
    /\ class_constraints = DEFAULT_CONSTRAINTS
    /\ call.fn = "PrimerDesigner" =>
          /\ \A k \in DOMAIN call.constraints :
                k \in DOMAIN self_constraints /\ self_constraints[k] = call.constraints[k]
          /\ \A k \in DOMAIN DEFAULT_CONSTRAINTS \ DOMAIN call.constraints :
                self_constraints[k] = DEFAULT_CONSTRAINTS[k]
          /\ DOMAIN self_constraints = DOMAIN DEFAULT_CONSTRAINTS \cup DOMAIN call.constraints

\* C16 witness: a designer constructed with a custom F3 range holds that range
\* and the default B3 range.
C16_Witness ==
    /\ call.fn = "PrimerDesigner"
    /\ self_constraints.F3_length_min = 18
    /\ self_constraints.B3_length_min = 15

\* C17: when the Tm range, the GC range or the hairpin threshold is overridden
\* in the constraints passed to PrimerDesigner, _is_valid_primer admits a
\* primer of valid composition exactly when its values are inside the
\* overridden ranges.
C17_OverriddenRangesUsed ==
    (call.fn = "_is_valid_primer" /\ call.primer.composition = "valid") =>
       LET p == call.primer
           opt(key) == DictGet(self_constraints, key, OPTIMAL_RANGES[key])
       IN ret.value =
             (/\ opt("tm_min") <= p.tm /\ p.tm <= opt("tm_max")
              /\ opt("gc_min") <= p.gc_content /\ p.gc_content <= opt("gc_max")
              /\ p.hairpin_dg >= opt("hairpin_dg_max"))

\* C20: _score_primer_set sets overall_score to the mean primer score minus
\* the Tm spread minus |f2_b2_amplicon_size - midpoint| / 10, midpoint being
\* the middle of the designer's amplicon range, and tm_uniformity to the Tm
\* spread (overall_score is held as 60 times its value); stated for sets whose
\* amplicon has been measured.
C20_ScoreUsesConfiguredMidpoint ==
    (call.fn = "_score_primer_set" /\ call.primer_set.f2_b2_amplicon_size > 0) =>
       LET ps == call.primer_set
           primers == <<ps.f3, ps.b3, ps.fip, ps.bip>>
                        \o (IF ps.lf = NoPrimer THEN <<>> ELSE <<ps.lf>>)
                        \o (IF ps.lb = NoPrimer THEN <<>> ELSE <<ps.lb>>)
           n == Len(primers)
           total == SeqSum([i \in 1..n |-> primers[i].score])
           tm_hi == CHOOSE t \in {primers[i].tm : i \in 1..n} :
                       \A i \in 1..n : primers[i].tm <= t
           tm_lo == CHOOSE t \in {primers[i].tm : i \in 1..n} :
                       \A i \in 1..n : primers[i].tm >= t
           midpoint == (self_constraints.F2_B2_amplicon_min
                        + self_constraints.F2_B2_amplicon_max) \div 2
           deviation == IF ps.f2_b2_amplicon_size >= midpoint
                        THEN ps.f2_b2_amplicon_size - midpoint
                        ELSE midpoint - ps.f2_b2_amplicon_size
       IN /\ ret.value.tm_uniformity = tm_hi - tm_lo
          /\ ret.value.overall_score =
                (60 \div n) * total - 60 * (tm_hi - tm_lo) - 6 * deviation

\* The loops of the search have run out without the result count being
\* reached.
SearchExhausted ==
    /\ pc \in {"finish", "done"}
    /\ Len(primer_sets) < max_candidates

\* C21: unless the result count is reached first, the search examines every
\* combination of the four candidate lists the generators returned: as many
\* combinations as the product of the lists' lengths, the last candidate of
\* every list included.
C21_EveryCandidateExamined ==
    SearchExhausted =>
       /\ combinations_tested = Len(f3_candidates) * Len(b3_candidates)
                                  * Len(fip_candidates) * Len(bip_candidates)
       /\ idx = <<Len(f3_candidates), Len(b3_candidates),
                  Len(fip_candidates), Len(bip_candidates)>>

\* The windows of a direct generator call and the primers among them that
\* _create_primer builds and _is_valid_primer accepts.
CalledWindows == FullWindows(call.role, call.seq_len)

Admissible ==
    LET ws == CalledWindows
        primers == [i \in 1..Len(ws) |-> create_primer(ws[i], PatternVerdict(call.pattern, i))]
    IN {primers[i] : i \in {k \in 1..Len(ws) :
                              /\ PatternVerdict(call.pattern, k).kind = "ok"
                              /\ is_valid_primer(primers[k])}}

ReturnLimit == IF call.role \in {"LF", "LB"} THEN TopLoopCandidates ELSE TopCandidates

\* C22: a generator returns at most 50 candidates (20 for LF and LB), ordered
\* by score non-increasing, all of them admissible windows of its role, as many
\* as the limit allows, and no admissible window left out has a strictly
\* higher score than a returned one.
C22_TopScoringReturned ==
    call.fn = "_generate_candidates" =>
       LET returned == ret.value
           admissible == Admissible
           returned_set == {returned[j] : j \in 1..Len(returned)}
           scores == {p.score : p \in returned_set}
       IN /\ Len(returned) <= ReturnLimit
          /\ Len(returned) = Min(ReturnLimit, Cardinality(admissible))
          /\ \A j \in 1..(Len(returned) - 1) : returned[j].score >= returned[j + 1].score
          /\ returned_set \subseteq admissible
          /\ \A p \in admissible \ returned_set : \A sc \in scores : p.score <= sc

\* C22 witness: a run with more admissible windows than the limit, of
\* different scores, returned a full list and left out a window of lower
\* score.
C22_Witness ==
    /\ call.fn = "_generate_candidates"
    /\ LET returned == ret.value
           admissible == Admissible
           returned_set == {returned[j] : j \in 1..Len(returned)}
       IN /\ Cardinality(admissible) > ReturnLimit
          /\ Len(returned) = ReturnLimit
          /\ returned[1].score > returned[Len(returned)].score
          /\ \E p \in admissible \ returned_set : p.score < returned[1].score

\* C23: in every FIP candidate a generator returns, the F2 window ends
\* strictly before the F1c window starts, and in every BIP candidate the B1c
\* window ends strictly before the B2 window starts.
C23_InnerWindowsDisjoint ==
    call.fn = "_generate_candidates" =>
       \A j \in 1..Len(ret.value) :
          LET p == ret.value[j]
          IN /\ p.type = "FIP" =>
                  p.start_pos + p.f2_len - 1 < p.end_pos - p.f1c_len + 1
             /\ p.type = "BIP" =>
                  p.start_pos + p.b1c_len - 1 < p.end_pos - p.b2_len + 1

\* C27: every FIP candidate a generator returns has F1c length + F2 length
\* within [FIP_length_min, FIP_length_max], and every BIP candidate has B1c
\* length + B2 length within [BIP_length_min, BIP_length_max].
C27_InnerPrimerLengthInRange ==
    call.fn = "_generate_candidates" =>
       \A j \in 1..Len(ret.value) :
          LET p == ret.value[j]
          IN /\ p.type = "FIP" =>
                  /\ self_constraints.FIP_length_min <= p.f1c_len + p.f2_len
                  /\ p.f1c_len + p.f2_len <= self_constraints.FIP_length_max
             /\ p.type = "BIP" =>
                  /\ self_constraints.BIP_length_min <= p.b1c_len + p.b2_len
                  /\ p.b1c_len + p.b2_len <= self_constraints.BIP_length_max

\* The sequence of a direct call holds only letters of the valid alphabet.
OverValidAlphabet ==
    \A i \in 1..Len(call.sequence) : call.sequence[i] \in DOMAIN complement_map

\* C28: has_strong_secondary_structure with its default threshold returns
\* False for every sequence over the valid alphabet, and
\* validate_sequence_composition never reports the issue "Strong secondary
\* structure predicted".
C28_NoStrongStructureAtDefault ==
    /\ (call.fn = "has_strong_secondary_structure"
        /\ call.max_hairpin_dg = default_max_hairpin_dg /\ OverValidAlphabet)
          => ret = ReturnValue(FALSE)
    /\ (call.fn = "validate_sequence_composition" /\ ret.kind = "return")
          => \A k \in 1..Len(ret.value.issues) :
                ret.value.issues[k] # "Strong secondary structure predicted"

\* C28 witness: the default call returned False for a sequence whose first
\* four bases pair with its last four, a stem a threshold of -1.0 reports.
C28_Witness ==
    /\ call.fn = "has_strong_secondary_structure"
    /\ call.max_hairpin_dg = default_max_hairpin_dg
    /\ Len(call.sequence) = 11
    /\ SubSeq(call.sequence, 1, 4) = reverse_complement(SubSeq(call.sequence, 8, 11)).value
    /\ has_strong_secondary_structure(call.sequence, 0 - 10) = ReturnValue(TRUE)
    /\ ret = ReturnValue(FALSE)

\* C26: _is_valid_primer rejects every primer whose sequence ends in G or C,
\* validate_sequence_composition reporting the final G or C as an issue, so
\* that no generator retains such a primer.
C26_FinalGCRejected ==
    (/\ call.fn = "_is_valid_primer"
     /\ "sequence" \in DOMAIN call
     /\ call.sequence[Len(call.sequence)] \in {"G", "C"})
       => /\ ret # ReturnValue(TRUE)
          /\ call.primer.composition # "valid"
          /\ Trial(Window("F3", 0, Len(call.sequence) - 1, "+", 0, 0, 0, 0),
                   Verdict(IF call.primer.composition = "issues" THEN "reject"
                           ELSE "composition_error",
                           0, call.primer.tm, call.primer.gc_content,
                           call.primer.hairpin_dg), NoU).kind = "skip"

\* C26 witness: a primer ending in G, with Tm, GC content and hairpin inside
\* the ranges and no other composition issue, was rejected.
C26_Witness ==
    /\ call.fn = "_is_valid_primer"
    /\ "sequence" \in DOMAIN call
    /\ call.sequence[Len(call.sequence)] = "G"
    /\ call.primer.composition = "issues"
    /\ call.primer.tm = 58 /\ call.primer.hairpin_dg = 0
    /\ call.primer.gc_content \in 40..60
    /\ ret = ReturnValue(FALSE)

\* C29: every candidate a generator retains has an empty warnings list.
C29_RetainedWithoutWarnings ==
    \A i \in 1..Len(g_cands) : g_cands[i].warnings = <<>>

\* C29 witness: a generator returned candidates after _is_valid_primer
\* rejected a window.
C29_Witness ==
    /\ g_state = "returned"
    /\ g_cands # <<>>
    /\ Len(g_cands) + g_skipped < Len(g_windows)
    /\ \A i \in 1..Len(g_cands) : g_cands[i].warnings = <<>>

C30_ExclusionListIsASet ==
    /\ \A i, j \in 1..Len(exclusion_sequences) :
          exclusion_sequences[i] = exclusion_sequences[j] => i = j
    /\ call.fn = "remove_exclusion_sequence" =>
          ~IsIn(UpperSeq(call.sequence), exclusion_sequences)

====
